---- MODULE Spec2Model ----
(***************************************************************************)
(* Model of the GitHub-App organisation lister (src/src/main.ts):          *)
(* convertPrivateKeyFormat, getInputs, createOctokitClient,                *)
(* getOrganizationInstallations and run, together with the getInput        *)
(* double of src/__fixtures__/core.ts.                                     *)
(*                                                                         *)
(* JavaScript strings are sequences of one-character strings, so that      *)
(* includes / replace / toLowerCase / String / JSON.stringify are computed *)
(* character by character.                                                 *)
(***************************************************************************)
EXTENDS Integers, Sequences, FiniteSets, TLC

(***************************************************************************)
(* Bounds of the explored input space.                                     *)
(***************************************************************************)
\* longest installation list the listing call returns
MaxInst == 3
\* number of fragments a private-key input is assembled from
MaxKeyParts == 3

(***************************************************************************)
(* String literals of the source.                                          *)
(***************************************************************************)
LegacyMarker == <<"B", "E", "G", "I", "N", " ", "R", "S", "A", " ", "P", "R", "I", "V", "A", "T", "E", " ", "K", "E", "Y">>
LegacyHeader == <<"-", "-", "-", "-", "-", "B", "E", "G", "I", "N", " ", "R", "S", "A", " ", "P", "R", "I", "V", "A", "T", "E", " ", "K", "E", "Y", "-", "-", "-", "-", "-">>
ModernHeader == <<"-", "-", "-", "-", "-", "B", "E", "G", "I", "N", " ", "P", "R", "I", "V", "A", "T", "E", " ", "K", "E", "Y", "-", "-", "-", "-", "-">>
LegacyFooter == <<"-", "-", "-", "-", "-", "E", "N", "D", " ", "R", "S", "A", " ", "P", "R", "I", "V", "A", "T", "E", " ", "K", "E", "Y", "-", "-", "-", "-", "-">>
ModernFooter == <<"-", "-", "-", "-", "-", "E", "N", "D", " ", "P", "R", "I", "V", "A", "T", "E", " ", "K", "E", "Y", "-", "-", "-", "-", "-">>
MsgConverting == <<"C", "o", "n", "v", "e", "r", "t", "i", "n", "g", " ", "p", "r", "i", "v", "a", "t", "e", " ", "k", "e", "y", " ", "f", "r", "o", "m", " ", "P", "K", "C", "S", "#", "1", " ", "t", "o", " ", "P", "K", "C", "S", "#", "8", " ", "f", "o", "r", "m", "a", "t">>
MsgStart == <<"R", "e", "t", "r", "i", "e", "v", "i", "n", "g", " ", "G", "i", "t", "H", "u", "b", " ", "A", "p", "p", " ", "i", "n", "s", "t", "a", "l", "l", "a", "t", "i", "o", "n", "s", ".", ".", ".">>
MsgInputRequired == <<"I", "n", "p", "u", "t", " ", "r", "e", "q", "u", "i", "r", "e", "d", " ", "a", "n", "d", " ", "n", "o", "t", " ", "s", "u", "p", "p", "l", "i", "e", "d", ":", " ">>
NameAppId == <<"a", "p", "p", "-", "i", "d">>
NamePrivateKey == <<"p", "r", "i", "v", "a", "t", "e", "-", "k", "e", "y">>
MsgFound == <<"F", "o", "u", "n", "d", " ">>
MsgTotalInstallations == <<" ", "t", "o", "t", "a", "l", " ", "i", "n", "s", "t", "a", "l", "l", "a", "t", "i", "o", "n", "s">>
MsgOrgInstallations == <<" ", "o", "r", "g", "a", "n", "i", "z", "a", "t", "i", "o", "n", " ", "i", "n", "s", "t", "a", "l", "l", "a", "t", "i", "o", "n", "s">>
MsgInstallationDetails == <<"I", "n", "s", "t", "a", "l", "l", "a", "t", "i", "o", "n", " ", "d", "e", "t", "a", "i", "l", "s", ":">>
MsgDetailId == <<" ", " ", "-", " ", "I", "D", ":", " ">>
MsgDetailAccount == <<",", " ", "A", "c", "c", "o", "u", "n", "t", ":", " ">>
MsgDetailType == <<",", " ", "T", "y", "p", "e", ":", " ">>
StrNull == <<"n", "u", "l", "l">>
StrUndefined == <<"u", "n", "d", "e", "f", "i", "n", "e", "d">>
StrObject == <<"[", "o", "b", "j", "e", "c", "t", " ", "O", "b", "j", "e", "c", "t", "]">>
TypeOrganization == <<"O", "r", "g", "a", "n", "i", "z", "a", "t", "i", "o", "n">>
TypeUser == <<"U", "s", "e", "r">>
MsgOutput == <<"O", "u", "t", "p", "u", "t", ":", " ">>
KwAuthentication == <<"a", "u", "t", "h", "e", "n", "t", "i", "c", "a", "t", "i", "o", "n">>
KwCredentials == <<"c", "r", "e", "d", "e", "n", "t", "i", "a", "l", "s">>
KwRateLimit == <<"r", "a", "t", "e", " ", "l", "i", "m", "i", "t">>
KwApi == <<"a", "p", "i">>
KwRequestFailed == <<"r", "e", "q", "u", "e", "s", "t", " ", "f", "a", "i", "l", "e", "d">>
PrefixAuthentication == <<"A", "u", "t", "h", "e", "n", "t", "i", "c", "a", "t", "i", "o", "n", " ", "f", "a", "i", "l", "e", "d", ":", " ">>
PrefixRateLimit == <<"G", "i", "t", "H", "u", "b", " ", "A", "P", "I", " ", "r", "a", "t", "e", " ", "l", "i", "m", "i", "t", " ", "e", "x", "c", "e", "e", "d", "e", "d", ":", " ">>
PrefixApi == <<"G", "i", "t", "H", "u", "b", " ", "A", "P", "I", " ", "e", "r", "r", "o", "r", ":", " ">>

(***************************************************************************)
(* JavaScript string primitives used by the source.                        *)
(***************************************************************************)
UpperChars == <<"A", "B", "C", "D", "E", "F", "G", "H", "I", "J", "K", "L", "M", "N", "O", "P", "Q", "R", "S", "T", "U", "V", "W", "X", "Y", "Z">>
LowerChars == <<"a", "b", "c", "d", "e", "f", "g", "h", "i", "j", "k", "l", "m", "n", "o", "p", "q", "r", "s", "t", "u", "v", "w", "x", "y", "z">>
DigitChars == <<"0", "1", "2", "3", "4", "5", "6", "7", "8", "9">>

\* one character of String.prototype.toLowerCase
toLowerChar(c) ==
  IF \E i \in 1..Len(UpperChars) : UpperChars[i] = c
  THEN LowerChars[CHOOSE i \in 1..Len(UpperChars) : UpperChars[i] = c]
  ELSE c

\* String.prototype.toLowerCase
toLowerCase(s) == [i \in 1..Len(s) |-> toLowerChar(s[i])]

\* does sub occur in s at (1-based) position i
occursAt(s, sub, i) ==
  /\ i >= 1
  /\ i + Len(sub) - 1 <= Len(s)
  /\ SubSeq(s, i, i + Len(sub) - 1) = sub

\* String.prototype.includes
includes(s, sub) == \E i \in 1..(Len(s) - Len(sub) + 1) : occursAt(s, sub, i)

\* String.prototype.indexOf, 1-based; 0 when sub does not occur
indexOf(s, sub) ==
  IF includes(s, sub)
  THEN CHOOSE i \in 1..(Len(s) - Len(sub) + 1) :
         /\ occursAt(s, sub, i)
         /\ \A j \in 1..(i - 1) : ~occursAt(s, sub, j)
  ELSE 0

\* String.prototype.replace with a string pattern: the first occurrence only
replace(s, pat, rep) ==
  LET i == indexOf(s, pat) IN
    IF i = 0 THEN s
    ELSE SubSeq(s, 1, i - 1) \o rep \o SubSeq(s, i + Len(pat), Len(s))

\* decimal digits of a natural number
RECURSIVE natToString(_)
natToString(n) ==
  IF n < 10 THEN <<DigitChars[n + 1]>>
  ELSE natToString(n \div 10) \o <<DigitChars[(n % 10) + 1]>>

\* Number-to-string conversion of template literals and String(n)
numberToString(n) == IF n < 0 THEN <<"-">> \o natToString(0 - n) ELSE natToString(n)

(***************************************************************************)
(* Log lines, thrown values.                                               *)
(***************************************************************************)
\* a core.info call
info(text) == [level |-> "info", text |-> text]
\* a core.debug call
debug(text) == [level |-> "debug", text |-> text]

\* JavaScript values that can be thrown / rejected with
JsError(m) == [kind |-> "Error", message |-> m, num |-> 0]
JsString(s) == [kind |-> "string", message |-> s, num |-> 0]
JsNumber(n) == [kind |-> "number", message |-> <<>>, num |-> n]
JsNull == [kind |-> "null", message |-> <<>>, num |-> 0]
JsUndefined == [kind |-> "undefined", message |-> <<>>, num |-> 0]
\* a plain object {message, code}
JsObject(m, code) == [kind |-> "object", message |-> m, num |-> code]
\* placeholder of the catch variable while nothing has been thrown
NoError == [kind |-> "none", message |-> <<>>, num |-> 0]

\* String(value) as the catch block of run applies it
String(v) ==
  CASE v.kind = "string" -> v.message
    [] v.kind = "number" -> numberToString(v.num)
    [] v.kind = "null" -> StrNull
    [] v.kind = "undefined" -> StrUndefined
    [] v.kind = "object" -> StrObject
    [] OTHER -> v.message

(***************************************************************************)
(* convertPrivateKeyFormat (src/src/main.ts 11-23).                        *)
(***************************************************************************)
\* variant: only the header is rewritten
convertPrivateKeyFormatHeaderOnly(privateKey) ==
  IF includes(privateKey, LegacyMarker)
  THEN replace(privateKey, LegacyHeader, ModernHeader)
  ELSE privateKey

\* variant: the delimiters are rewritten without the marker test
convertPrivateKeyFormatUnguarded(privateKey) ==
  replace(replace(privateKey, LegacyHeader, ModernHeader),
          LegacyFooter, ModernFooter)

\* variant: the chain is broken, a call rewrites the header or else the footer
convertPrivateKeyFormatOneDelimiter(privateKey) ==
  IF includes(privateKey, LegacyMarker)
  THEN replace(privateKey, LegacyHeader, ModernHeader)
  ELSE replace(privateKey, LegacyFooter, ModernFooter)

convertPrivateKeyFormat(privateKey) ==
  IF includes(privateKey, LegacyMarker)
  THEN replace(replace(privateKey, LegacyHeader, ModernHeader),
               LegacyFooter, ModernFooter)
  ELSE privateKey

\* the log lines convertPrivateKeyFormat emits for this key
convertPrivateKeyFormatLogs(privateKey) ==
  IF includes(privateKey, LegacyMarker) THEN <<info(MsgConverting)>> ELSE <<>>

(***************************************************************************)
(* getOrganizationInstallations, the pure part (src/src/main.ts 103-127).  *)
(* An installation is [id, hasAccount, login, type]; hasAccount = FALSE is *)
(* account: null.                                                          *)
(***************************************************************************)
Installation(id, login, type) ==
  [id |-> id, hasAccount |-> TRUE, login |-> login, type |-> type]
InstallationNoAccount(id) ==
  [id |-> id, hasAccount |-> FALSE, login |-> <<>>, type |-> <<>>]

\* installation.account?.type === 'Organization'
isOrganization(installation) ==
  installation.hasAccount /\ installation.type = TypeOrganization

\* .filter(installation => installation.account?.type === 'Organization')
RECURSIVE filterOrganizations(_)
filterOrganizations(arr) ==
  IF arr = <<>> THEN <<>>
  ELSE (IF isOrganization(Head(arr)) THEN <<Head(arr)>> ELSE <<>>)
       \o filterOrganizations(Tail(arr))

\* variant: a login that was already collected is dropped
RECURSIVE distinctLogins(_, _)
distinctLogins(arr, seen) ==
  IF arr = <<>> THEN <<>>
  ELSE IF Head(arr).login \in seen THEN distinctLogins(Tail(arr), seen)
  ELSE <<Head(arr).login>> \o distinctLogins(Tail(arr), seen \cup {Head(arr).login})

orgNamesOfDistinct(installations) ==
  distinctLogins(filterOrganizations(installations), {})

\* variant: the filter keeps every installation that has an account
orgNamesOfAnyAccount(installations) ==
  LET kept == SelectSeq(installations, LAMBDA inst : inst.hasAccount) IN
    [i \in 1..Len(kept) |-> kept[i].login]

\* .filter(...).map(installation => installation.account!.login)
orgNamesOf(installations) ==
  LET kept == filterOrganizations(installations) IN
    [i \in 1..Len(kept) |-> kept[i].login]

\* x || 'null'
orNull(present, s) == IF present /\ s # <<>> THEN s ELSE StrNull

\* variant: the fields are interpolated without the 'null' fallback
detailLineNoFallback(inst) ==
  debug(MsgDetailId \o numberToString(inst.id)
        \o MsgDetailAccount \o (IF inst.hasAccount THEN inst.login ELSE StrUndefined)
        \o MsgDetailType \o (IF inst.hasAccount THEN inst.type ELSE StrUndefined))

\* one debug line of the installation details
detailLine(inst) ==
  debug(MsgDetailId \o numberToString(inst.id)
        \o MsgDetailAccount \o orNull(inst.hasAccount, inst.login)
        \o MsgDetailType \o orNull(inst.hasAccount, inst.type))

\* variant: in debug mode the installation details are logged with core.info
collectorLogsDetailsAsInfo(installations, isDebug) ==
  <<info(MsgFound \o numberToString(Len(installations)) \o MsgTotalInstallations)>>
  \o (IF isDebug
      THEN <<info(MsgInstallationDetails)>>
           \o [i \in 1..Len(installations) |->
                 info(detailLine(installations[i]).text)]
      ELSE <<>>)
  \o <<info(MsgFound \o numberToString(Len(orgNamesOf(installations)))
            \o MsgOrgInstallations)>>

\* variant: the organization-count line reports the total count
collectorLogsTotalTwice(installations, isDebug) ==
  <<info(MsgFound \o numberToString(Len(installations)) \o MsgTotalInstallations)>>
  \o (IF isDebug
      THEN <<debug(MsgInstallationDetails)>>
           \o [i \in 1..Len(installations) |-> detailLine(installations[i])]
      ELSE <<>>)
  \o <<info(MsgFound \o numberToString(Len(installations))
            \o MsgOrgInstallations)>>

\* everything getOrganizationInstallations logs once the listing resolved
collectorLogs(installations, isDebug) ==
  <<info(MsgFound \o numberToString(Len(installations)) \o MsgTotalInstallations)>>
  \o (IF isDebug
      THEN <<debug(MsgInstallationDetails)>>
           \o [i \in 1..Len(installations) |-> detailLine(installations[i])]
      ELSE <<>>)
  \o <<info(MsgFound \o numberToString(Len(orgNamesOf(installations)))
            \o MsgOrgInstallations)>>

(***************************************************************************)
(* JSON.stringify of an array of strings (src/src/main.ts 151).            *)
(***************************************************************************)
\* a string with its quotes; '"' and '\' are escaped
RECURSIVE jsonEscape(_)
jsonEscape(s) ==
  IF s = <<>> THEN <<>>
  ELSE (IF Head(s) \in {"\"", "\\"} THEN <<"\\", Head(s)>> ELSE <<Head(s)>>)
       \o jsonEscape(Tail(s))

jsonQuote(s) == <<"\"">> \o jsonEscape(s) \o <<"\"">>

RECURSIVE jsonJoin(_)
jsonJoin(arr) ==
  IF arr = <<>> THEN <<>>
  ELSE IF Len(arr) = 1 THEN jsonQuote(arr[1])
  ELSE jsonQuote(Head(arr)) \o <<",">> \o jsonJoin(Tail(arr))

\* variant: the strings are quoted without escaping
RECURSIVE jsonJoinUnescaped(_)
jsonJoinUnescaped(arr) ==
  IF arr = <<>> THEN <<>>
  ELSE IF Len(arr) = 1 THEN <<"\"">> \o arr[1] \o <<"\"">>
  ELSE <<"\"">> \o Head(arr) \o <<"\"", ",">> \o jsonJoinUnescaped(Tail(arr))

JSONstringifyUnescaped(arr) == <<"[">> \o jsonJoinUnescaped(arr) \o <<"]">>

\* variant: an empty array is serialized as null
JSONstringifyEmptyAsNull(arr) ==
  IF arr = <<>> THEN StrNull ELSE <<"[">> \o jsonJoin(arr) \o <<"]">>

JSONstringify(arr) == <<"[">> \o jsonJoin(arr) \o <<"]">>

(***************************************************************************)
(* The catch block of run (src/src/main.ts 158-183): the string handed to  *)
(* core.setFailed.                                                         *)
(***************************************************************************)
\* variant: the keywords are searched in the message as it is
failureMessageCaseSensitive(error) ==
  IF error.kind = "Error"
  THEN IF includes(error.message, KwAuthentication)
          \/ includes(error.message, KwCredentials)
       THEN PrefixAuthentication \o error.message
       ELSE IF includes(error.message, KwRateLimit)
       THEN PrefixRateLimit \o error.message
       ELSE IF includes(error.message, KwApi)
               \/ includes(error.message, KwRequestFailed)
       THEN PrefixApi \o error.message
       ELSE error.message
  ELSE String(error)

\* variant: an unclassified Error is reported under a generic prefix
failureMessagePrefixedFallback(error) ==
  IF error.kind = "Error"
  THEN LET errorMessage == toLowerCase(error.message) IN
         IF includes(errorMessage, KwAuthentication)
            \/ includes(errorMessage, KwCredentials)
         THEN PrefixAuthentication \o error.message
         ELSE IF includes(errorMessage, KwRateLimit)
         THEN PrefixRateLimit \o error.message
         ELSE PrefixApi \o error.message
  ELSE String(error)

\* variant: any value carrying a message is classified like an Error
failureMessageDuckTyped(error) ==
  IF error.kind \in {"Error", "object"}
  THEN LET errorMessage == toLowerCase(error.message) IN
         IF includes(errorMessage, KwAuthentication)
            \/ includes(errorMessage, KwCredentials)
         THEN PrefixAuthentication \o error.message
         ELSE IF includes(errorMessage, KwRateLimit)
         THEN PrefixRateLimit \o error.message
         ELSE IF includes(errorMessage, KwApi)
                 \/ includes(errorMessage, KwRequestFailed)
         THEN PrefixApi \o error.message
         ELSE error.message
  ELSE String(error)

\* variant: the rate-limit test comes before the authentication test
failureMessageRateLimitFirst(error) ==
  IF error.kind = "Error"
  THEN LET errorMessage == toLowerCase(error.message) IN
         IF includes(errorMessage, KwRateLimit)
         THEN PrefixRateLimit \o error.message
         ELSE IF includes(errorMessage, KwAuthentication)
                 \/ includes(errorMessage, KwCredentials)
         THEN PrefixAuthentication \o error.message
         ELSE IF includes(errorMessage, KwApi)
                 \/ includes(errorMessage, KwRequestFailed)
         THEN PrefixApi \o error.message
         ELSE error.message
  ELSE String(error)

\* variant: every caught value is treated as an Error and its message field
\* reported, without the String conversion
failureMessageNoStringConversion(error) ==
  LET errorMessage == toLowerCase(error.message) IN
    IF includes(errorMessage, KwAuthentication)
       \/ includes(errorMessage, KwCredentials)
    THEN PrefixAuthentication \o error.message
    ELSE IF includes(errorMessage, KwRateLimit)
    THEN PrefixRateLimit \o error.message
    ELSE IF includes(errorMessage, KwApi)
            \/ includes(errorMessage, KwRequestFailed)
    THEN PrefixApi \o error.message
    ELSE error.message

failureMessage(error) ==
  IF error.kind = "Error"
  THEN LET errorMessage == toLowerCase(error.message) IN
         IF includes(errorMessage, KwAuthentication)
            \/ includes(errorMessage, KwCredentials)
         THEN PrefixAuthentication \o error.message
         ELSE IF includes(errorMessage, KwRateLimit)
         THEN PrefixRateLimit \o error.message
         ELSE IF includes(errorMessage, KwApi)
                 \/ includes(errorMessage, KwRequestFailed)
         THEN PrefixApi \o error.message
         ELSE error.message
  ELSE String(error)

(***************************************************************************)
(* core.getInput's environment variable name                               *)
(* (src/__fixtures__/core.ts 11): INPUT_<NAME>, blanks and dashes to '_'.  *)
(***************************************************************************)
toUpperChar(c) ==
  IF \E i \in 1..Len(LowerChars) : LowerChars[i] = c
  THEN UpperChars[CHOOSE i \in 1..Len(LowerChars) : LowerChars[i] = c]
  ELSE c

envVarName(name) ==
  <<"I", "N", "P", "U", "T", "_">> \o [i \in 1..Len(name) |->
                   IF name[i] \in {" ", "-"} THEN "_" ELSE toUpperChar(name[i])]

(***************************************************************************)
(* getInputs (src/src/main.ts 31-39) as a function of the environment:     *)
(* either the thrown error, or the returned pair and the log lines of the  *)
(* key conversion.                                                         *)
(***************************************************************************)
getInput(environment, name, required) ==
  LET var == envVarName(name)
      val == IF environment[var].set THEN environment[var].val ELSE <<>> IN
    IF required /\ val = <<>>
    THEN [ok |-> FALSE, val |-> <<>>, error |-> JsError(MsgInputRequired \o name)]
    ELSE [ok |-> TRUE, val |-> val, error |-> NoError]

\* variant: app-id is parsed as a number, which drops its leading zeros
RECURSIVE stripLeadingZeros(_)
stripLeadingZeros(s) ==
  IF Len(s) > 1 /\ Head(s) = "0" THEN stripLeadingZeros(Tail(s)) ELSE s

getInputsParsedAppId(environment) ==
  LET a == getInput(environment, NameAppId, TRUE)
      p == getInput(environment, NamePrivateKey, TRUE) IN
    IF ~a.ok
    THEN [ok |-> FALSE, error |-> a.error, appId |-> <<>>, privateKey |-> <<>>,
          logs |-> <<>>]
    ELSE IF ~p.ok
    THEN [ok |-> FALSE, error |-> p.error, appId |-> <<>>, privateKey |-> <<>>,
          logs |-> <<>>]
    ELSE [ok |-> TRUE, error |-> NoError, appId |-> stripLeadingZeros(a.val),
          privateKey |-> convertPrivateKeyFormat(p.val),
          logs |-> convertPrivateKeyFormatLogs(p.val)]

\* variant: private-key is read before app-id
getInputsKeyFirst(environment) ==
  LET a == getInput(environment, NameAppId, TRUE)
      p == getInput(environment, NamePrivateKey, TRUE) IN
    IF ~p.ok
    THEN [ok |-> FALSE, error |-> p.error, appId |-> <<>>, privateKey |-> <<>>,
          logs |-> <<>>]
    ELSE IF ~a.ok
    THEN [ok |-> FALSE, error |-> a.error, appId |-> <<>>, privateKey |-> <<>>,
          logs |-> <<>>]
    ELSE [ok |-> TRUE, error |-> NoError, appId |-> a.val,
          privateKey |-> convertPrivateKeyFormat(p.val),
          logs |-> convertPrivateKeyFormatLogs(p.val)]

getInputs(environment) ==
  LET a == getInput(environment, NameAppId, TRUE)
      p == getInput(environment, NamePrivateKey, TRUE) IN
    IF ~a.ok
    THEN [ok |-> FALSE, error |-> a.error, appId |-> <<>>, privateKey |-> <<>>,
          logs |-> <<>>]
    ELSE IF ~p.ok
    THEN [ok |-> FALSE, error |-> p.error, appId |-> <<>>, privateKey |-> <<>>,
          logs |-> <<>>]
    ELSE [ok |-> TRUE, error |-> NoError, appId |-> a.val,
          privateKey |-> convertPrivateKeyFormat(p.val),
          logs |-> convertPrivateKeyFormatLogs(p.val)]

(***************************************************************************)
(* Input spaces.                                                           *)
(***************************************************************************)
\* sequences over S of length at most n
SeqsUpTo(S, n) == UNION {[1..k -> S] : k \in 0..n}

RECURSIVE flatten(_)
flatten(parts) == IF parts = <<>> THEN <<>> ELSE Head(parts) \o flatten(Tail(parts))

KeyBody == <<"\n", "M", "I", "I", "B", "\n">>
Dashes == <<"-", "-", "-", "-", "-">>
\* fragments private-key inputs are assembled from
KeyFragments ==
  {LegacyHeader, LegacyFooter, ModernHeader, ModernFooter, LegacyMarker,
   Dashes, KeyBody}
\* the inputs convertPrivateKeyFormat is explored on
KeyStrings == {flatten(parts) : parts \in SeqsUpTo(KeyFragments, MaxKeyParts)}

\* private-key values a run is configured with
RunKeys ==
  {LegacyHeader \o KeyBody \o LegacyFooter,
   ModernHeader \o KeyBody \o ModernFooter,
   LegacyHeader \o KeyBody \o LegacyFooter \o LegacyHeader \o KeyBody \o LegacyFooter,
   LegacyMarker \o KeyBody,
   ModernHeader \o KeyBody \o LegacyFooter,
   KeyBody}
\* app-id values a run is configured with
RunAppIds == {<<"1", "2", "3", "4", "5">>, <<"0", "0", "7">>}

EnvAppId == envVarName(NameAppId)
EnvPrivateKey == envVarName(NamePrivateKey)
Unset == [set |-> FALSE, val |-> <<>>]
IsSet(v) == [set |-> TRUE, val |-> v]
\* process.env restricted to the two inputs
Environments ==
  {(EnvAppId :> a) @@ (EnvPrivateKey :> k) :
     a \in {Unset, IsSet(<<>>)} \cup {IsSet(v) : v \in RunAppIds},
     k \in {Unset, IsSet(<<>>)} \cup {IsSet(v) : v \in RunKeys}}

LoginOrg1 == <<"o", "r", "g", "1">>
LoginQuoted == <<"a", "\"", "\\">>
LoginUser1 == <<"u", "s", "e", "r", "1">>
\* installation records the listing call answers with
InstallationPool ==
  {Installation(1, LoginOrg1, TypeOrganization),
   Installation(20, LoginQuoted, TypeOrganization),
   Installation(3, LoginUser1, TypeUser),
   Installation(45, LoginOrg1, TypeUser),
   InstallationNoAccount(6)}
InstallationSeqs == SeqsUpTo(InstallationPool, MaxInst)

\* messages of the Errors a step can fail with
ErrorMessages ==
  {<<>>,
   <<"b", "o", "o", "m">>,
   <<"B", "a", "d", " ", "c", "r", "e", "d", "e", "n", "t", "i", "a", "l", "s">>,
   <<"A", "U", "T", "H", "E", "N", "T", "I", "C", "A", "T", "I", "O", "N", " ", "r", "e", "q", "u", "i", "r", "e", "d">>,
   <<"A", "P", "I", " ", "r", "a", "t", "e", " ", "l", "i", "m", "i", "t", " ", "e", "x", "c", "e", "e", "d", "e", "d">>,
   <<"R", "a", "t", "e", " ", "L", "i", "m", "i", "t", " ", "h", "i", "t", ":", " ", "b", "a", "d", " ", "c", "r", "e", "d", "e", "n", "t", "i", "a", "l", "s">>,
   <<"r", "a", "t", "e", " ", "l", "i", "m", "i", "t">>,
   <<"R", "e", "q", "u", "e", "s", "t", " ", "f", "a", "i", "l", "e", "d", " ", "w", "i", "t", "h", " ", "s", "t", "a", "t", "u", "s", " ", "5", "0", "0">>,
   <<"H", "T", "T", "P", " ", "A", "p", "i", " ", "d", "o", "w", "n">>,
   <<"I", "n", "p", "u", "t", " ", "r", "e", "q", "u", "i", "r", "e", "d", " ", "a", "n", "d", " ", "n", "o", "t", " ", "s", "u", "p", "p", "l", "i", "e", "d", ":", " ", "a", "p", "i", "-", "k", "e", "y">>}
\* values the listing call can reject with
ThrownValues ==
  {JsError(m) : m \in ErrorMessages}
  \cup {JsString(<<>>), JsString(<<"a", "u", "t", "h", "e", "n", "t", "i", "c", "a", "t", "i", "o", "n">>), JsString(<<"o", "o", "p", "s">>)}
  \cup {JsNumber(0), JsNumber(42), JsNumber(-7)}
  \cup {JsNull, JsUndefined, JsObject(<<"a", "p", "i">>, 500)}
\* what a failing write to the log or output sink throws
SinkErrors == {JsError(<<"w", "r", "i", "t", "e", " ", "E", "P", "I", "P", "E">>)}

NameOrganizations == <<"o", "r", "g", "a", "n", "i", "z", "a", "t", "i", "o", "n", "s">>

(***************************************************************************)
(* State.                                                                  *)
(***************************************************************************)
VARIABLES
  env,            \* process.env: the configured inputs
  debugMode,      \* core.isDebug()
  pc,             \* position of run
  appId,          \* run: const appId
  privateKey,     \* run: const privateKey
  octokit,        \* run: const octokit
  installations,  \* getOrganizationInstallations: the data of the response
  organizations,  \* run: const organizations
  jsonOutput,     \* run: const jsonOutput
  outputs,        \* the core.setOutput calls that wrote
  failed,         \* the core.setFailed calls
  logs,           \* the core.info / core.debug calls
  caught,         \* the value in flight to the catch block
  failStep,       \* the step that threw it
  listCalls,      \* number of listInstallations invocations
  settled,        \* the promise returned by run
  rejected,       \* the value the listing call rejected with
  keyIn,          \* argument of convertPrivateKeyFormat
  keyOnce,        \* its result
  keyTwice,       \* the result of applying it to its result
  kpc             \* position of the normalizer exploration

keyVars == <<keyIn, keyOnce, keyTwice, kpc>>
runVars == <<env, debugMode, pc, appId, privateKey, octokit, installations,
             organizations, jsonOutput, outputs, failed, logs, caught,
             failStep, listCalls, settled, rejected>>
vars == <<runVars, keyVars>>

NoClient == [built |-> FALSE, appId |-> <<>>, privateKey |-> <<>>]

\* the locals of run before anything ran
Fresh ==
  /\ appId = <<>>
  /\ privateKey = <<>>
  /\ octokit = NoClient
  /\ installations = <<>>
  /\ organizations = <<>>
  /\ jsonOutput = <<>>
  /\ outputs = <<>>
  /\ failed = <<>>
  /\ logs = <<>>
  /\ caught = NoError
  /\ failStep = "none"
  /\ listCalls = 0
  /\ settled = "pending"
  /\ rejected = NoError

\* a run about to start under some configuration
Init ==
  /\ env \in Environments
  /\ debugMode \in BOOLEAN
  /\ pc = "start"
  /\ Fresh
  /\ keyIn = <<>> /\ keyOnce = <<>> /\ keyTwice = <<>> /\ kpc = "off"

(***************************************************************************)
(* run (src/src/main.ts 137-184), statement by statement.                  *)
(***************************************************************************)
\* a throw inside the try block: control goes to the catch block; the log
\* lines emitted before the throw stay
Throw(e, step, emitted) ==
  /\ caught' = e
  /\ failStep' = step
  /\ pc' = "catch"
  /\ logs' = logs \o emitted

\* the sink fails on one of the log calls of a step
SinkFault(step, lines) ==
  \E k \in 1..Len(lines) : \E e \in SinkErrors :
    Throw(e, step, SubSeq(lines, 1, k - 1))

\* variant: run starts without logging the start message
RunStartSilent ==
  /\ pc = "start"
  /\ pc' = "getInputs"
  /\ UNCHANGED <<env, debugMode, appId, privateKey, octokit, installations,
                 organizations, jsonOutput, outputs, failed, logs, caught,
                 failStep, listCalls, settled, rejected, keyVars>>

\* core.info('Retrieving GitHub App installations...')
RunStart ==
  /\ pc = "start"
  /\ \/ /\ logs' = Append(logs, info(MsgStart))
        /\ pc' = "getInputs"
        /\ UNCHANGED <<caught, failStep>>
     \/ SinkFault("start", <<info(MsgStart)>>)
  /\ UNCHANGED <<env, debugMode, appId, privateKey, octokit, installations,
                 organizations, jsonOutput, outputs, failed, listCalls,
                 settled, rejected, keyVars>>

\* const { appId, privateKey } = getInputs()
GetInputs ==
  /\ pc = "getInputs"
  /\ LET r == getInputs(env) IN
       \/ /\ r.ok
          /\ appId' = r.appId
          /\ privateKey' = r.privateKey
          /\ logs' = logs \o r.logs
          /\ pc' = "createClient"
          /\ UNCHANGED <<caught, failStep>>
       \/ /\ ~r.ok
          /\ Throw(r.error, "getInputs", <<>>)
          /\ UNCHANGED <<appId, privateKey>>
       \/ /\ r.ok
          /\ SinkFault("getInputs", r.logs)
          /\ UNCHANGED <<appId, privateKey>>
  /\ UNCHANGED <<env, debugMode, octokit, installations, organizations,
                 jsonOutput, outputs, failed, listCalls, settled, rejected, keyVars>>

\* the Octokit configuration createOctokitClient builds
createOctokitClient(id, key) == [built |-> TRUE, appId |-> id, privateKey |-> key]

\* const octokit = createOctokitClient(appId, privateKey)
CreateClient ==
  /\ pc = "createClient"
  /\ octokit' = createOctokitClient(appId, privateKey)
  /\ pc' = "list"
  /\ UNCHANGED <<env, debugMode, appId, privateKey, installations,
                 organizations, jsonOutput, outputs, failed, logs, caught,
                 failStep, listCalls, settled, rejected, keyVars>>

\* getOrganizationInstallations: the listing call is issued and awaited
ListInstallations ==
  /\ pc = "list"
  /\ listCalls' = listCalls + 1
  /\ pc' = "await"
  /\ UNCHANGED <<env, debugMode, appId, privateKey, octokit, installations,
                 organizations, jsonOutput, outputs, failed, logs, caught,
                 failStep, settled, rejected, keyVars>>

\* the listing call resolves with { data }
ListResolves ==
  /\ pc = "await"
  /\ \E data \in InstallationSeqs : installations' = data
  /\ pc' = "collect"
  /\ UNCHANGED <<env, debugMode, appId, privateKey, octokit, organizations,
                 jsonOutput, outputs, failed, logs, caught, failStep,
                 listCalls, settled, rejected, keyVars>>

\* variant: a rejected listing call is issued a second time
ListRejectsRetried ==
  /\ pc = "await"
  /\ \E e \in ThrownValues :
       /\ rejected' = e
       /\ IF listCalls < 2
          THEN pc' = "list" /\ UNCHANGED <<caught, failStep, logs>>
          ELSE Throw(e, "list", <<>>)
  /\ UNCHANGED <<env, debugMode, appId, privateKey, octokit, installations,
                 organizations, jsonOutput, outputs, failed, listCalls,
                 settled, keyVars>>

\* variant: the collector wraps the rejection in an Error of its own
ListRejectsWrapped ==
  /\ pc = "await"
  /\ \E e \in ThrownValues :
       /\ rejected' = e
       /\ Throw(JsError(<<"F", "a", "i", "l", "e", "d", " ", "t", "o", " ", "l", "i", "s", "t", " ", "i", "n", "s", "t", "a", "l", "l", "a", "t", "i", "o", "n", "s", ":", " ">> \o String(e)),
                "list", <<>>)
  /\ UNCHANGED <<env, debugMode, appId, privateKey, octokit, installations,
                 organizations, jsonOutput, outputs, failed, listCalls,
                 settled, keyVars>>

\* the listing call rejects; the await rethrows inside run's try block
ListRejects ==
  /\ pc = "await"
  /\ \E e \in ThrownValues : rejected' = e /\ Throw(e, "list", <<>>)
  /\ UNCHANGED <<env, debugMode, appId, privateKey, octokit, installations,
                 organizations, jsonOutput, outputs, failed, listCalls,
                 settled, keyVars>>

\* the rest of getOrganizationInstallations: logs, filter, map, return
Collect ==
  /\ pc = "collect"
  /\ \/ /\ logs' = logs \o collectorLogs(installations, debugMode)
        /\ organizations' = orgNamesOf(installations)
        /\ pc' = "setOutput"
        /\ UNCHANGED <<caught, failStep>>
     \/ /\ SinkFault("collect", collectorLogs(installations, debugMode))
        /\ UNCHANGED organizations
  /\ UNCHANGED <<env, debugMode, appId, privateKey, octokit, installations,
                 jsonOutput, outputs, failed, listCalls, settled, rejected, keyVars>>

\* const jsonOutput = JSON.stringify(organizations);
\* core.setOutput('organizations', jsonOutput)
SetOutput ==
  /\ pc = "setOutput"
  /\ jsonOutput' = JSONstringify(organizations)
  /\ \/ /\ outputs' = Append(outputs, [name |-> NameOrganizations,
                                       value |-> jsonOutput'])
        /\ pc' = "logOutput"
        /\ UNCHANGED <<caught, failStep, logs>>
     \/ /\ \E e \in SinkErrors : Throw(e, "setOutput", <<>>)
        /\ UNCHANGED outputs
  /\ UNCHANGED <<env, debugMode, appId, privateKey, octokit, installations,
                 organizations, failed, listCalls, settled, rejected, keyVars>>

\* core.info(`Output: ${jsonOutput}`), the last statement of the try block
LogOutput ==
  /\ pc = "logOutput"
  /\ \/ /\ logs' = Append(logs, info(MsgOutput \o jsonOutput))
        /\ pc' = "done"
        /\ settled' = "resolved"
        /\ UNCHANGED <<caught, failStep>>
     \/ /\ SinkFault("logOutput", <<info(MsgOutput \o jsonOutput)>>)
        /\ UNCHANGED settled
  /\ UNCHANGED <<env, debugMode, appId, privateKey, octokit, installations,
                 organizations, jsonOutput, outputs, failed, listCalls,
                 rejected, keyVars>>

\* the catch block: one core.setFailed call, then run returns
Catch ==
  /\ pc = "catch"
  /\ failed' = Append(failed, [type |-> "string", text |-> failureMessage(caught)])
  /\ pc' = "done"
  /\ settled' = "resolved"
  /\ UNCHANGED <<env, debugMode, appId, privateKey, octokit, installations,
                 organizations, jsonOutput, outputs, logs, caught, failStep,
                 listCalls, rejected, keyVars>>

Next ==
  \/ RunStart
  \/ GetInputs
  \/ CreateClient
  \/ ListInstallations
  \/ ListResolves
  \/ ListRejects
  \/ Collect
  \/ SetOutput
  \/ LogOutput
  \/ Catch

Spec == Init /\ [][Next]_vars

(***************************************************************************)
(* convertPrivateKeyFormat explored on its own: applied to a key, then to  *)
(* its own result.                                                         *)
(***************************************************************************)
InitKey ==
  /\ env = (EnvAppId :> Unset) @@ (EnvPrivateKey :> Unset)
  /\ debugMode = FALSE
  /\ pc = "off"
  /\ Fresh
  /\ keyIn \in KeyStrings
  /\ keyOnce = <<>> /\ keyTwice = <<>> /\ kpc = "in"

ConvertOnce ==
  /\ kpc = "in"
  /\ keyOnce' = convertPrivateKeyFormat(keyIn)
  /\ logs' = logs \o convertPrivateKeyFormatLogs(keyIn)
  /\ kpc' = "once"
  /\ UNCHANGED <<env, debugMode, pc, appId, privateKey, octokit, installations,
                 organizations, jsonOutput, outputs, failed, caught, failStep,
                 listCalls, settled, rejected, keyIn, keyTwice>>

ConvertTwice ==
  /\ kpc = "once"
  /\ keyTwice' = convertPrivateKeyFormat(keyOnce)
  /\ logs' = logs \o convertPrivateKeyFormatLogs(keyOnce)
  /\ kpc' = "twice"
  /\ UNCHANGED <<env, debugMode, pc, appId, privateKey, octokit, installations,
                 organizations, jsonOutput, outputs, failed, caught, failStep,
                 listCalls, settled, rejected, keyIn, keyOnce>>

NextKey == ConvertOnce \/ ConvertTwice

SpecKey == InitKey /\ [][NextKey]_vars

(***************************************************************************)
(* Vocabulary of the properties.                                           *)
(***************************************************************************)
\* getInputs has returned to run
InputsResolved ==
  /\ pc \notin {"off", "start", "getInputs"}
  /\ failStep \notin {"start", "getInputs"}

\* getOrganizationInstallations has returned to run
CollectorReturned ==
  \/ pc \in {"setOutput", "logOutput"}
  \/ pc \in {"catch", "done"} /\ failStep \in {"none", "setOutput", "logOutput"}

\* run has returned after a failure / without one
RunFailed == pc = "done" /\ caught # NoError
RunSucceeded == pc = "done" /\ caught = NoError

\* indices of the Organization entries of an installation list
OrgIndices(insts) ==
  {i \in 1..Len(insts) :
     insts[i].hasAccount /\ insts[i].type = <<"O", "r", "g", "a", "n", "i", "z", "a", "t", "i", "o", "n">>}

\* the j-th smallest member of a set of indices
NthIndex(S, j) == CHOOSE i \in S : Cardinality({x \in S : x < i}) = j - 1

\* number of (possibly overlapping) occurrences of sub in s
Count(s, sub) == Cardinality({i \in 1..Len(s) : occursAt(s, sub, i)})

\* s with the occurrence of pat at position i rewritten to rep
Splice(s, i, pat, rep) ==
  SubSeq(s, 1, i - 1) \o rep \o SubSeq(s, i + Len(pat), Len(s))

\* the strings obtained from s by rewriting one occurrence of pat to rep
RewriteOne(s, pat, rep) ==
  {Splice(s, i, pat, rep) : i \in {j \in 1..Len(s) : occursAt(s, pat, j)}}

(***************************************************************************)
(* C1: the collector returns exactly the logins of the Organization        *)
(* entries, in input order: as many elements as there are Organization     *)
(* entries (so at most the input length), the j-th element being the login *)
(* of the j-th Organization entry, so nothing comes from a User or         *)
(* null-account entry.                                                     *)
(***************************************************************************)
C1_OrganizationProjection ==
  CollectorReturned =>
    LET orgs == OrgIndices(installations) IN
      /\ Len(organizations) = Cardinality(orgs)
      /\ Len(organizations) <= Len(installations)
      /\ \A j \in 1..Len(organizations) :
           organizations[j] = installations[NthIndex(orgs, j)].login

\* two organizations are returned around a skipped User entry carrying an
\* organization's login, with a null-account entry in the input
C1_Witness ==
  /\ CollectorReturned
  /\ Len(installations) = 3
  /\ installations[1] = Installation(20, LoginQuoted, TypeOrganization)
  /\ installations[2] = Installation(45, LoginOrg1, TypeUser)
  /\ installations[3] = Installation(1, LoginOrg1, TypeOrganization)
  /\ organizations = <<LoginQuoted, LoginOrg1>>

(***************************************************************************)
(* C2: a caught Error is reported under the first matching category, the   *)
(* message being lower-cased for the match only: authentication or         *)
(* credentials, else rate limit, else api or request failed, else the      *)
(* message unchanged.                                                      *)
(***************************************************************************)
C2_ClassificationPriority ==
  (RunFailed /\ caught.kind = "Error") =>
    LET m == caught.message
        lower == toLowerCase(m)
        auth == includes(lower, <<"a", "u", "t", "h", "e", "n", "t", "i", "c", "a", "t", "i", "o", "n">>) \/ includes(lower, <<"c", "r", "e", "d", "e", "n", "t", "i", "a", "l", "s">>)
        rate == includes(lower, <<"r", "a", "t", "e", " ", "l", "i", "m", "i", "t">>)
        api == includes(lower, <<"a", "p", "i">>) \/ includes(lower, <<"r", "e", "q", "u", "e", "s", "t", " ", "f", "a", "i", "l", "e", "d">>)
        report == failed[Len(failed)].text
    IN /\ Len(failed) >= 1
       /\ auth => report = <<"A", "u", "t", "h", "e", "n", "t", "i", "c", "a", "t", "i", "o", "n", " ", "f", "a", "i", "l", "e", "d", ":", " ">> \o m
       /\ (~auth /\ rate) => report = <<"G", "i", "t", "H", "u", "b", " ", "A", "P", "I", " ", "r", "a", "t", "e", " ", "l", "i", "m", "i", "t", " ", "e", "x", "c", "e", "e", "d", "e", "d", ":", " ">> \o m
       /\ (~auth /\ ~rate /\ api) => report = <<"G", "i", "t", "H", "u", "b", " ", "A", "P", "I", " ", "e", "r", "r", "o", "r", ":", " ">> \o m
       /\ (~auth /\ ~rate /\ ~api) => report = m

\* a message naming both a rate limit and credentials is reported as an
\* authentication failure only, its letter case kept
C2_Witness ==
  /\ RunFailed
  /\ caught = JsError(<<"R", "a", "t", "e", " ", "L", "i", "m", "i", "t", " ", "h", "i", "t", ":", " ", "b", "a", "d", " ", "c", "r", "e", "d", "e", "n", "t", "i", "a", "l", "s">>)
  /\ failed = <<[type |-> "string",
                 text |-> <<"A", "u", "t", "h", "e", "n", "t", "i", "c", "a", "t", "i", "o", "n", " ", "f", "a", "i", "l", "e", "d", ":", " ", "R", "a", "t", "e", " ", "L", "i", "m", "i", "t", " ", "h", "i", "t", ":", " ", "b", "a", "d", " ", "c", "r", "e", "d", "e", "n", "t", "i", "a", "l", "s">>]>>

(***************************************************************************)
(* C3, as stated: whatever was thrown, run makes exactly one failure       *)
(* report, its argument a non-empty string, and run itself resolves.       *)
(***************************************************************************)
C3_NonEmptyReport ==
  RunFailed =>
    /\ Len(failed) = 1
    /\ failed[1].type = "string"
    /\ failed[1].text # <<>>
    /\ settled = "resolved"

(***************************************************************************)
(* C3, amended: whatever was thrown, run makes exactly one failure report, *)
(* its argument a string, and run itself resolves; the string is empty     *)
(* exactly when the thrown value is an Error with the empty message or the *)
(* empty string.                                                           *)
(***************************************************************************)
C3_OneStringReport ==
  /\ Len(failed) <= 1
  /\ settled # "rejected"
  /\ RunFailed =>
       /\ Len(failed) = 1
       /\ failed[1].type = "string"
       /\ settled = "resolved"
       /\ (failed[1].text = <<>>) <=>
            (caught.kind \in {"Error", "string"} /\ caught.message = <<>>)

\* a rejection with null is reported as the string "null"
C3_Witness ==
  /\ RunFailed
  /\ caught = JsNull
  /\ failed = <<[type |-> "string", text |-> <<"n", "u", "l", "l">>]>>
  /\ settled = "resolved"

(***************************************************************************)
(* C4: on every failing run, whichever step failed, exactly one failure    *)
(* report is made, it is a string, and the output is never written.        *)
(***************************************************************************)
C4_NoOutputOnFailure ==
  RunFailed =>
    /\ Len(failed) = 1
    /\ failed[1].type = "string"
    /\ outputs = <<>>

(***************************************************************************)
(* A reader of JSON arrays of strings (JSON.parse, as the serialization    *)
(* test of src/__fixtures__/core.ts 150-167 applies it), restricted to the *)
(* escapes \" and \\.                                                      *)
(***************************************************************************)
JsonFail == [ok |-> FALSE, value |-> <<>>, next |-> 0]

\* reads the characters of a string literal whose opening quote is before
\* position i, up to its closing quote
RECURSIVE jsonReadString(_, _, _)
jsonReadString(s, i, acc) ==
  IF i > Len(s) THEN JsonFail
  ELSE IF s[i] = "\"" THEN [ok |-> TRUE, value |-> acc, next |-> i + 1]
  ELSE IF s[i] = "\\"
  THEN IF i + 1 <= Len(s) /\ s[i + 1] \in {"\"", "\\"}
       THEN jsonReadString(s, i + 2, Append(acc, s[i + 1]))
       ELSE JsonFail
  ELSE jsonReadString(s, i + 1, Append(acc, s[i]))

\* reads the elements of an array from position i on, up to the final ']'
RECURSIVE jsonReadElements(_, _, _)
jsonReadElements(s, i, acc) ==
  IF i > Len(s) \/ s[i] # "\"" THEN JsonFail
  ELSE LET str == jsonReadString(s, i + 1, <<>>) IN
    IF ~str.ok \/ str.next > Len(s) THEN JsonFail
    ELSE IF s[str.next] = "]"
    THEN IF str.next = Len(s)
         THEN [ok |-> TRUE, value |-> Append(acc, str.value), next |-> str.next + 1]
         ELSE JsonFail
    ELSE IF s[str.next] = ","
    THEN jsonReadElements(s, str.next + 1, Append(acc, str.value))
    ELSE JsonFail

JSONparse(s) ==
  IF Len(s) < 2 \/ s[1] # "[" THEN JsonFail
  ELSE IF s = <<"[", "]">> THEN [ok |-> TRUE, value |-> <<>>, next |-> 3]
  ELSE jsonReadElements(s, 2, <<>>)

(***************************************************************************)
(* C5: on every successful run the output is written exactly once, under   *)
(* the key organizations, and no failure is reported; the value is a JSON  *)
(* array with one string per collected organization, and is the text []    *)
(* (not null, not undefined) when no organization was collected.  The      *)
(* output is never written twice.                                          *)
(***************************************************************************)
C5_OutputWrittenOnce ==
  /\ Len(outputs) <= 1
  /\ RunSucceeded =>
       /\ Len(outputs) = 1
       /\ outputs[1].name = <<"o", "r", "g", "a", "n", "i", "z", "a", "t", "i", "o", "n", "s">>
       /\ failed = <<>>
       /\ JSONparse(outputs[1].value).ok
       /\ Len(JSONparse(outputs[1].value).value) = Len(organizations)
       /\ outputs[1].value \notin {<<"n", "u", "l", "l">>, <<"u", "n", "d", "e", "f", "i", "n", "e", "d">>}
       /\ (organizations = <<>>) => (outputs[1].value = <<"[", "]">>)

\* a successful run over a list without organizations writes []
C5_Witness ==
  /\ RunSucceeded
  /\ Len(installations) = 2
  /\ organizations = <<>>
  /\ outputs = <<[name |-> <<"o", "r", "g", "a", "n", "i", "z", "a", "t", "i", "o", "n", "s">>, value |-> <<"[", "]">>]>>
  /\ failed = <<>>

(***************************************************************************)
(* C6: getInputs reads app-id, then private-key; a missing (unset or       *)
(* empty) input makes it fail with "Input required and not supplied:       *)
(* <name>", naming app-id when app-id is missing (also when both are), and *)
(* private-key when only private-key is missing.                           *)
(***************************************************************************)
C6_FirstMissingInputNamed ==
  (pc \notin {"off", "start", "getInputs"} /\ failStep # "start") =>
    LET missing(var) == ~env[var].set \/ env[var].val = <<>> IN
      /\ missing(<<"I", "N", "P", "U", "T", "_", "A", "P", "P", "_", "I", "D">>) =>
           /\ failStep = "getInputs"
           /\ caught = JsError(<<"I", "n", "p", "u", "t", " ", "r", "e", "q", "u", "i", "r", "e", "d", " ", "a", "n", "d", " ", "n", "o", "t", " ", "s", "u", "p", "p", "l", "i", "e", "d", ":", " ", "a", "p", "p", "-", "i", "d">>)
      /\ (~missing(<<"I", "N", "P", "U", "T", "_", "A", "P", "P", "_", "I", "D">>) /\ missing(<<"I", "N", "P", "U", "T", "_", "P", "R", "I", "V", "A", "T", "E", "_", "K", "E", "Y">>)) =>
           /\ failStep = "getInputs"
           /\ caught = JsError(<<"I", "n", "p", "u", "t", " ", "r", "e", "q", "u", "i", "r", "e", "d", " ", "a", "n", "d", " ", "n", "o", "t", " ", "s", "u", "p", "p", "l", "i", "e", "d", ":", " ", "p", "r", "i", "v", "a", "t", "e", "-", "k", "e", "y">>)

\* both inputs are missing and the failure names app-id
C6_Witness ==
  /\ ~env[<<"I", "N", "P", "U", "T", "_", "A", "P", "P", "_", "I", "D">>].set
  /\ env[<<"I", "N", "P", "U", "T", "_", "P", "R", "I", "V", "A", "T", "E", "_", "K", "E", "Y">>] = [set |-> TRUE, val |-> <<>>]
  /\ failStep = "getInputs"
  /\ caught = JsError(<<"I", "n", "p", "u", "t", " ", "r", "e", "q", "u", "i", "r", "e", "d", " ", "a", "n", "d", " ", "n", "o", "t", " ", "s", "u", "p", "p", "l", "i", "e", "d", ":", " ", "a", "p", "p", "-", "i", "d">>)

(***************************************************************************)
(* C7: when the key contains the legacy marker BEGIN RSA PRIVATE KEY, the  *)
(* result of convertPrivateKeyFormat differs from the key only in that a   *)
(* legacy header delimiter line (if the key has one) and a legacy footer   *)
(* delimiter line (if the key has one) are rewritten to the modern ones,   *)
(* every other character staying where it is; a key with exactly one of    *)
(* each comes out with no legacy delimiter left.  When the marker is       *)
(* absent the key is returned unchanged.                                   *)
(***************************************************************************)
C7_OnlyDelimitersRewritten ==
  (kpc \in {"once", "twice"}) =>
    IF includes(keyIn, <<"B", "E", "G", "I", "N", " ", "R", "S", "A", " ", "P", "R", "I", "V", "A", "T", "E", " ", "K", "E", "Y">>)
    THEN LET headers == <<"-", "-", "-", "-", "-", "B", "E", "G", "I", "N", " ", "R", "S", "A", " ", "P", "R", "I", "V", "A", "T", "E", " ", "K", "E", "Y", "-", "-", "-", "-", "-">>
             footers == <<"-", "-", "-", "-", "-", "E", "N", "D", " ", "R", "S", "A", " ", "P", "R", "I", "V", "A", "T", "E", " ", "K", "E", "Y", "-", "-", "-", "-", "-">>
             afterHeader ==
               IF Count(keyIn, headers) = 0 THEN {keyIn}
               ELSE RewriteOne(keyIn, headers, <<"-", "-", "-", "-", "-", "B", "E", "G", "I", "N", " ", "P", "R", "I", "V", "A", "T", "E", " ", "K", "E", "Y", "-", "-", "-", "-", "-">>)
             afterFooter ==
               UNION {IF Count(k, footers) = 0 THEN {k}
                      ELSE RewriteOne(k, footers, <<"-", "-", "-", "-", "-", "E", "N", "D", " ", "P", "R", "I", "V", "A", "T", "E", " ", "K", "E", "Y", "-", "-", "-", "-", "-">>) :
                      k \in afterHeader}
         IN /\ keyOnce \in afterFooter
            /\ (Count(keyIn, headers) = 1 /\ Count(keyIn, footers) = 1) =>
                 (Count(keyOnce, headers) = 0 /\ Count(keyOnce, footers) = 0)
    ELSE keyOnce = keyIn

\* the example of the specification: a legacy key with a body
C7_Witness ==
  /\ kpc = "once"
  /\ keyIn = <<"-", "-", "-", "-", "-", "B", "E", "G", "I", "N", " ", "R", "S", "A", " ", "P", "R", "I", "V", "A", "T", "E", " ", "K", "E", "Y", "-", "-", "-", "-", "-", "\n", "M", "I", "I", "B", "\n", "-", "-", "-", "-", "-", "E", "N", "D", " ", "R", "S", "A", " ", "P", "R", "I", "V", "A", "T", "E", " ", "K", "E", "Y", "-", "-", "-", "-", "-">>
  /\ keyOnce = <<"-", "-", "-", "-", "-", "B", "E", "G", "I", "N", " ", "P", "R", "I", "V", "A", "T", "E", " ", "K", "E", "Y", "-", "-", "-", "-", "-", "\n", "M", "I", "I", "B", "\n", "-", "-", "-", "-", "-", "E", "N", "D", " ", "P", "R", "I", "V", "A", "T", "E", " ", "K", "E", "Y", "-", "-", "-", "-", "-">>

(***************************************************************************)
(* C8, as stated: normalizing twice equals normalizing once, for every     *)
(* input string.                                                           *)
(***************************************************************************)
C8_IdempotentEverywhere ==
  (kpc = "twice") => (keyTwice = keyOnce)

(***************************************************************************)
(* C8, amended: normalizing twice equals normalizing once for every input  *)
(* that contains each legacy delimiter line at most once, and normalizing  *)
(* a key without the legacy marker returns it unchanged.                   *)
(***************************************************************************)
C8_IdempotentOnSingleDelimiters ==
  /\ (/\ kpc = "twice"
      /\ Count(keyIn, <<"-", "-", "-", "-", "-", "B", "E", "G", "I", "N", " ", "R", "S", "A", " ", "P", "R", "I", "V", "A", "T", "E", " ", "K", "E", "Y", "-", "-", "-", "-", "-">>) <= 1
      /\ Count(keyIn, <<"-", "-", "-", "-", "-", "E", "N", "D", " ", "R", "S", "A", " ", "P", "R", "I", "V", "A", "T", "E", " ", "K", "E", "Y", "-", "-", "-", "-", "-">>) <= 1)
       => (keyTwice = keyOnce)
  /\ (kpc \in {"once", "twice"} /\ ~includes(keyIn, <<"B", "E", "G", "I", "N", " ", "R", "S", "A", " ", "P", "R", "I", "V", "A", "T", "E", " ", "K", "E", "Y">>))
       => (keyOnce = keyIn)

\* a legacy key normalized twice: the second pass changes nothing
C8_Witness ==
  /\ kpc = "twice"
  /\ keyIn = <<"-", "-", "-", "-", "-", "B", "E", "G", "I", "N", " ", "R", "S", "A", " ", "P", "R", "I", "V", "A", "T", "E", " ", "K", "E", "Y", "-", "-", "-", "-", "-", "\n", "M", "I", "I", "B", "\n", "-", "-", "-", "-", "-", "E", "N", "D", " ", "R", "S", "A", " ", "P", "R", "I", "V", "A", "T", "E", " ", "K", "E", "Y", "-", "-", "-", "-", "-">>
  /\ keyOnce # keyIn
  /\ keyTwice = keyOnce

C10_InputsReturnedAsSupplied ==
  InputsResolved =>
    /\ appId = env[<<"I", "N", "P", "U", "T", "_", "A", "P", "P", "_", "I", "D">>].val
    /\ privateKey = env[<<"I", "N", "P", "U", "T", "_", "P", "R", "I", "V", "A", "T", "E", "_", "K", "E", "Y">>].val

(***************************************************************************)
(* Vocabulary of the log properties.                                       *)
(***************************************************************************)
\* does s start / end with sub
StartsWith(s, sub) == Len(sub) <= Len(s) /\ SubSeq(s, 1, Len(sub)) = sub
EndsWith(s, sub) ==
  Len(sub) <= Len(s) /\ SubSeq(s, Len(s) - Len(sub) + 1, Len(s)) = sub

\* positions of the total-count / organization-count lines in the log
TotalCountLines ==
  {i \in 1..Len(logs) :
     /\ logs[i].level = "info"
     /\ StartsWith(logs[i].text, <<"F", "o", "u", "n", "d", " ">>)
     /\ EndsWith(logs[i].text, <<" ", "t", "o", "t", "a", "l", " ", "i", "n", "s", "t", "a", "l", "l", "a", "t", "i", "o", "n", "s">>)}
OrgCountLines ==
  {i \in 1..Len(logs) :
     /\ logs[i].level = "info"
     /\ StartsWith(logs[i].text, <<"F", "o", "u", "n", "d", " ">>)
     /\ EndsWith(logs[i].text, <<" ", "o", "r", "g", "a", "n", "i", "z", "a", "t", "i", "o", "n", " ", "i", "n", "s", "t", "a", "l", "l", "a", "t", "i", "o", "n", "s">>)}

\* the debug lines of the log, in order
DebugLines == SelectSeq(logs, LAMBDA l : l.level = "debug")

(***************************************************************************)
(* C11: once the collector has returned, the log holds exactly one line    *)
(* "Found N total installations", N the length of the listed sequence, and *)
(* exactly one line "Found M organization installations", M the length of  *)
(* the returned sequence, the first before the second.                     *)
(***************************************************************************)
C11_CountLines ==
  CollectorReturned =>
    /\ Cardinality(TotalCountLines) = 1
    /\ Cardinality(OrgCountLines) = 1
    /\ \A i \in TotalCountLines : \A j \in OrgCountLines :
         /\ i < j
         /\ logs[i].text = <<"F", "o", "u", "n", "d", " ">> \o numberToString(Len(installations))
                             \o <<" ", "t", "o", "t", "a", "l", " ", "i", "n", "s", "t", "a", "l", "l", "a", "t", "i", "o", "n", "s">>
         /\ logs[j].text = <<"F", "o", "u", "n", "d", " ">> \o numberToString(Len(organizations))
                             \o <<" ", "o", "r", "g", "a", "n", "i", "z", "a", "t", "i", "o", "n", " ", "i", "n", "s", "t", "a", "l", "l", "a", "t", "i", "o", "n", "s">>

\* three installations, one of them an organization: total 3, organizations 1
C11_Witness ==
  /\ CollectorReturned
  /\ Len(installations) = 3
  /\ Len(organizations) = 1
  /\ \E i, j \in 1..Len(logs) :
       /\ i < j
       /\ logs[i] = info(<<"F", "o", "u", "n", "d", " ", "3", " ", "t", "o", "t", "a", "l", " ", "i", "n", "s", "t", "a", "l", "l", "a", "t", "i", "o", "n", "s">>)
       /\ logs[j] = info(<<"F", "o", "u", "n", "d", " ", "1", " ", "o", "r", "g", "a", "n", "i", "z", "a", "t", "i", "o", "n", " ", "i", "n", "s", "t", "a", "l", "l", "a", "t", "i", "o", "n", "s">>)

(***************************************************************************)
(* C12: a caught value that is not an Error (a string, a number, null,     *)
(* undefined, a plain object, also one with a message field naming a       *)
(* category) is not classified: the report is its string conversion.       *)
(***************************************************************************)
C12_NonErrorReportedAsString ==
  (RunFailed /\ caught.kind # "Error") =>
    /\ Len(failed) = 1
    /\ caught.kind = "string" => failed[1].text = caught.message
    /\ caught.kind = "number" => failed[1].text = numberToString(caught.num)
    /\ caught = JsNumber(-7) => failed[1].text = <<"-", "7">>
    /\ caught.kind = "null" => failed[1].text = <<"n", "u", "l", "l">>
    /\ caught.kind = "undefined" => failed[1].text = <<"u", "n", "d", "e", "f", "i", "n", "e", "d">>
    /\ caught.kind = "object" => failed[1].text = <<"[", "o", "b", "j", "e", "c", "t", " ", "O", "b", "j", "e", "c", "t", "]">>

\* the plain object {message: 'api', code: 500} is reported as
\* [object Object], without the API prefix
C12_Witness ==
  /\ RunFailed
  /\ caught = JsObject(<<"a", "p", "i">>, 500)
  /\ failed = <<[type |-> "string", text |-> <<"[", "o", "b", "j", "e", "c", "t", " ", "O", "b", "j", "e", "c", "t", "]">>]>>

(***************************************************************************)
(* C13: when every listed installation is an Organization account, the     *)
(* collector's result has the length of the input and its i-th element is  *)
(* the login of the i-th installation.                                     *)
(***************************************************************************)
C13_AllOrganizationsExtracted ==
  (/\ CollectorReturned
   /\ \A i \in 1..Len(installations) :
        installations[i].hasAccount /\ installations[i].type = <<"O", "r", "g", "a", "n", "i", "z", "a", "t", "i", "o", "n">>)
    => /\ Len(organizations) = Len(installations)
       /\ \A i \in 1..Len(installations) :
            organizations[i] = installations[i].login

\* three organizations, one of them listed twice
C13_Witness ==
  /\ CollectorReturned
  /\ installations = <<Installation(1, LoginOrg1, TypeOrganization),
                       Installation(20, LoginQuoted, TypeOrganization),
                       Installation(1, LoginOrg1, TypeOrganization)>>
  /\ organizations = <<LoginOrg1, LoginQuoted, LoginOrg1>>

(***************************************************************************)
(* C14: the value written under organizations reads back as the collected  *)
(* sequence: same elements, same order, same length.                       *)
(***************************************************************************)
C14_OutputRoundTrip ==
  (Len(outputs) >= 1) =>
    /\ JSONparse(outputs[1].value).ok
    /\ JSONparse(outputs[1].value).value = organizations

\* a login with a quote and a backslash is written escaped and reads back
C14_Witness ==
  /\ Len(outputs) = 1
  /\ organizations = <<LoginOrg1, LoginQuoted>>
  /\ outputs[1].value = <<"[", "\"", "o", "r", "g", "1", "\"", ",", "\"", "a", "\\", "\"", "\\", "\\", "\"", "]">>
  /\ JSONparse(outputs[1].value).value = <<LoginOrg1, LoginQuoted>>

(***************************************************************************)
(* C15: a successful run has logged, in this order and once each, the      *)
(* start message, the key conversion line if the key carried the legacy    *)
(* marker, the total count, the organization count and "Output: <json>",   *)
(* has built one client, issued one listing call and written one output.   *)
(* At every moment a later step has happened only after the earlier ones:  *)
(* a client only after the start message and the inputs, a listing call    *)
(* only with a client, count lines only after the listing call, the output *)
(* only after the organization count, the Output line only after the       *)
(* output.  A run that fails at input resolution has logged the start      *)
(* message.                                                                *)
(***************************************************************************)
C15_StepOrder ==
  LET infoLines == SelectSeq(logs, LAMBDA l : l.level = "info")
      outputLines == {i \in 1..Len(logs) : StartsWith(logs[i].text, <<"O", "u", "t", "p", "u", "t", ":", " ">>)}
  IN /\ RunSucceeded =>
          /\ infoLines =
               <<info(<<"R", "e", "t", "r", "i", "e", "v", "i", "n", "g", " ", "G", "i", "t", "H", "u", "b", " ", "A", "p", "p", " ", "i", "n", "s", "t", "a", "l", "l", "a", "t", "i", "o", "n", "s", ".", ".", ".">>)>>
               \o (IF includes(env[<<"I", "N", "P", "U", "T", "_", "P", "R", "I", "V", "A", "T", "E", "_", "K", "E", "Y">>].val, <<"B", "E", "G", "I", "N", " ", "R", "S", "A", " ", "P", "R", "I", "V", "A", "T", "E", " ", "K", "E", "Y">>)
                   THEN <<info(<<"C", "o", "n", "v", "e", "r", "t", "i", "n", "g", " ", "p", "r", "i", "v", "a", "t", "e", " ", "k", "e", "y", " ", "f", "r", "o", "m", " ", "P", "K", "C", "S", "#", "1", " ", "t", "o", " ", "P", "K", "C", "S", "#", "8", " ", "f", "o", "r", "m", "a", "t">>)>>
                   ELSE <<>>)
               \o <<info(<<"F", "o", "u", "n", "d", " ">> \o numberToString(Len(installations))
                         \o <<" ", "t", "o", "t", "a", "l", " ", "i", "n", "s", "t", "a", "l", "l", "a", "t", "i", "o", "n", "s">>),
                    info(<<"F", "o", "u", "n", "d", " ">> \o numberToString(Len(organizations))
                         \o <<" ", "o", "r", "g", "a", "n", "i", "z", "a", "t", "i", "o", "n", " ", "i", "n", "s", "t", "a", "l", "l", "a", "t", "i", "o", "n", "s">>),
                    info(<<"O", "u", "t", "p", "u", "t", ":", " ">> \o outputs[1].value)>>
          /\ octokit.built
          /\ listCalls = 1
          /\ Len(outputs) = 1
     /\ octokit.built =>
          /\ Len(logs) >= 1
          /\ logs[1] = info(<<"R", "e", "t", "r", "i", "e", "v", "i", "n", "g", " ", "G", "i", "t", "H", "u", "b", " ", "A", "p", "p", " ", "i", "n", "s", "t", "a", "l", "l", "a", "t", "i", "o", "n", "s", ".", ".", ".">>)
          /\ octokit.appId = appId /\ octokit.privateKey = privateKey
          /\ appId # <<>> /\ privateKey # <<>>
     /\ listCalls >= 1 => octokit.built
     /\ (TotalCountLines # {} \/ OrgCountLines # {}) => listCalls = 1
     /\ \A j \in OrgCountLines : \E i \in TotalCountLines : i < j
     /\ outputs # <<>> => OrgCountLines # {}
     /\ outputLines # {} => outputs # <<>>
     /\ \A k \in outputLines : \A j \in OrgCountLines : j < k
     /\ failStep = "getInputs" =>
          logs = <<info(<<"R", "e", "t", "r", "i", "e", "v", "i", "n", "g", " ", "G", "i", "t", "H", "u", "b", " ", "A", "p", "p", " ", "i", "n", "s", "t", "a", "l", "l", "a", "t", "i", "o", "n", "s", ".", ".", ".">>)>>

\* a run with a legacy key and two organizations among three installations
\* has succeeded
C15_Witness ==
  /\ RunSucceeded
  /\ includes(env[<<"I", "N", "P", "U", "T", "_", "P", "R", "I", "V", "A", "T", "E", "_", "K", "E", "Y">>].val, <<"B", "E", "G", "I", "N", " ", "R", "S", "A", " ", "P", "R", "I", "V", "A", "T", "E", " ", "K", "E", "Y">>)
  /\ Len(installations) = 3
  /\ Len(organizations) = 2
  /\ logs[Len(logs)] = info(<<"O", "u", "t", "p", "u", "t", ":", " ", "[", "\"", "o", "r", "g", "1", "\"", ",", "\"", "a", "\\", "\"", "\\", "\\", "\"", "]">>)

(***************************************************************************)
(* C16: the listing call is issued at most once in a run; while it is      *)
(* awaited nothing happens but its resolution or its rejection; a          *)
(* rejection is not retried: it goes to the catch block, is reported once  *)
(* and the run ends.                                                       *)
(***************************************************************************)
C16_ListedAtMostOnce ==
  /\ [](/\ listCalls <= 1
        /\ (pc = "done" /\ failStep = "list") =>
             (listCalls = 1 /\ Len(failed) = 1))
  /\ [][/\ (listCalls' # listCalls) => (listCalls = 0 /\ pc = "list")
        /\ (pc = "await") => (pc' \in {"collect", "catch"})
        /\ (pc = "await" /\ pc' = "catch") => (failStep' = "list")
        /\ (pc = "catch") => (pc' = "done" /\ Len(failed') = Len(failed) + 1)
        /\ (pc = "done") => UNCHANGED vars]_vars

\* a run whose listing call was rejected has ended after one call and one
\* report
C16_Witness ==
  /\ pc = "done"
  /\ failStep = "list"
  /\ listCalls = 1
  /\ Len(failed) = 1
  /\ settled = "resolved"

(***************************************************************************)
(* C17: when a required input is missing, run reports the message of the   *)
(* configuration error as it is, under no category prefix, and ends        *)
(* without a client, without a listing call and without an output.         *)
(***************************************************************************)
C17_MissingInputReportedVerbatim ==
  LET missing(var) == ~env[var].set \/ env[var].val = <<>> IN
    (/\ pc = "done"
     /\ failStep # "start"
     /\ missing(<<"I", "N", "P", "U", "T", "_", "A", "P", "P", "_", "I", "D">>) \/ missing(<<"I", "N", "P", "U", "T", "_", "P", "R", "I", "V", "A", "T", "E", "_", "K", "E", "Y">>)) =>
      /\ failStep = "getInputs"
      /\ failed =
           <<[type |-> "string",
              text |-> IF missing(<<"I", "N", "P", "U", "T", "_", "A", "P", "P", "_", "I", "D">>)
                       THEN <<"I", "n", "p", "u", "t", " ", "r", "e", "q", "u", "i", "r", "e", "d", " ", "a", "n", "d", " ", "n", "o", "t", " ", "s", "u", "p", "p", "l", "i", "e", "d", ":", " ", "a", "p", "p", "-", "i", "d">>
                       ELSE <<"I", "n", "p", "u", "t", " ", "r", "e", "q", "u", "i", "r", "e", "d", " ", "a", "n", "d", " ", "n", "o", "t", " ", "s", "u", "p", "p", "l", "i", "e", "d", ":", " ", "p", "r", "i", "v", "a", "t", "e", "-", "k", "e", "y">>]>>
      /\ ~octokit.built
      /\ listCalls = 0
      /\ outputs = <<>>

\* app-id is configured, private-key is not: the report names private-key
C17_Witness ==
  /\ pc = "done"
  /\ failStep = "getInputs"
  /\ env[<<"I", "N", "P", "U", "T", "_", "A", "P", "P", "_", "I", "D">>].set /\ env[<<"I", "N", "P", "U", "T", "_", "A", "P", "P", "_", "I", "D">>].val # <<>>
  /\ ~env[<<"I", "N", "P", "U", "T", "_", "P", "R", "I", "V", "A", "T", "E", "_", "K", "E", "Y">>].set
  /\ failed = <<[type |-> "string",
                 text |-> <<"I", "n", "p", "u", "t", " ", "r", "e", "q", "u", "i", "r", "e", "d", " ", "a", "n", "d", " ", "n", "o", "t", " ", "s", "u", "p", "p", "l", "i", "e", "d", ":", " ", "p", "r", "i", "v", "a", "t", "e", "-", "k", "e", "y">>]>>

(***************************************************************************)
(* C18: convertPrivateKeyFormat logs "Converting private key from PKCS#1   *)
(* to PKCS#8 format" once when the key it returns differs from its         *)
(* argument, and not at all when it returns its argument.                  *)
(***************************************************************************)
C18_LogIffConverted ==
  (kpc = "once") =>
    LET n == Cardinality({i \in 1..Len(logs) :
                 logs[i] = info(<<"C", "o", "n", "v", "e", "r", "t", "i", "n", "g", " ", "p", "r", "i", "v", "a", "t", "e", " ", "k", "e", "y", " ", "f", "r", "o", "m", " ", "P", "K", "C", "S", "#", "1", " ", "t", "o", " ", "P", "K", "C", "S", "#", "8", " ", "f", "o", "r", "m", "a", "t">>)})
    IN IF keyOnce # keyIn THEN n = 1 ELSE n = 0

(***************************************************************************)
(* C19: once the collector has returned, with debug mode enabled the debug *)
(* lines are the heading and then one line per installation, in input      *)
(* order, "  - ID: <id>, Account: <login>, Type: <type>", with null for    *)
(* login and type exactly when the installation has no account; with debug *)
(* mode disabled there is no debug line.                                   *)
(***************************************************************************)
C19_DebugLines ==
  CollectorReturned =>
    IF debugMode
    THEN DebugLines =
           <<debug(<<"I", "n", "s", "t", "a", "l", "l", "a", "t", "i", "o", "n", " ", "d", "e", "t", "a", "i", "l", "s", ":">>)>>
           \o [i \in 1..Len(installations) |->
                 debug(<<" ", " ", "-", " ", "I", "D", ":", " ">> \o numberToString(installations[i].id)
                       \o <<",", " ", "A", "c", "c", "o", "u", "n", "t", ":", " ">>
                       \o (IF installations[i].hasAccount
                           THEN installations[i].login ELSE <<"n", "u", "l", "l">>)
                       \o <<",", " ", "T", "y", "p", "e", ":", " ">>
                       \o (IF installations[i].hasAccount
                           THEN installations[i].type ELSE <<"n", "u", "l", "l">>))]
    ELSE DebugLines = <<>>

\* debug lines of an organization and of an installation without account
C19_Witness ==
  /\ CollectorReturned
  /\ debugMode
  /\ Len(installations) = 2
  /\ DebugLines =
       <<debug(<<"I", "n", "s", "t", "a", "l", "l", "a", "t", "i", "o", "n", " ", "d", "e", "t", "a", "i", "l", "s", ":">>),
         debug(<<" ", " ", "-", " ", "I", "D", ":", " ", "2", "0", ",", " ", "A", "c", "c", "o", "u", "n", "t", ":", " ", "a", "\"", "\\", ",", " ", "T", "y", "p", "e", ":", " ", "O", "r", "g", "a", "n", "i", "z", "a", "t", "i", "o", "n">>),
         debug(<<" ", " ", "-", " ", "I", "D", ":", " ", "6", ",", " ", "A", "c", "c", "o", "u", "n", "t", ":", " ", "n", "u", "l", "l", ",", " ", "T", "y", "p", "e", ":", " ", "n", "u", "l", "l">>)>>

(***************************************************************************)
(* C20: when the listing call rejects, the value that reaches run's catch  *)
(* block is the value it rejected with; the collector has returned no      *)
(* sequence and has logged no count line and no debug line.                *)
(***************************************************************************)
C20_RejectionPropagated ==
  (failStep = "list") =>
    /\ caught = rejected
    /\ rejected \in ThrownValues
    /\ installations = <<>>
    /\ organizations = <<>>
    /\ TotalCountLines = {}
    /\ OrgCountLines = {}
    /\ DebugLines = <<>>
    /\ outputs = <<>>

\* a rejection with a plain object reaches the catch block as that object,
\* with debug mode on
C20_Witness ==
  /\ failStep = "list"
  /\ debugMode
  /\ rejected = JsObject(<<"a", "p", "i">>, 500)
  /\ caught = JsObject(<<"a", "p", "i">>, 500)
  /\ pc = "catch"

(***************************************************************************)
(* C21: the promise returned by run never rejects, and a run that has      *)
(* ended (as it does once the listing call has resolved or rejected) has   *)
(* resolved having done exactly one of the two: written the output, or     *)
(* reported a failure.                                                     *)
(***************************************************************************)
C21_EndsWithExactlyOneOutcome ==
  /\ settled # "rejected"
  /\ (pc = "done") =>
       /\ settled = "resolved"
       /\ \/ Len(outputs) = 1 /\ failed = <<>>
          \/ outputs = <<>> /\ Len(failed) = 1

(***************************************************************************)
(* C22: the report of a caught Error ends with the Error's message, letter *)
(* case kept, and the category prefix before it is the one every message   *)
(* differing from it only in letter case gets.                             *)
(***************************************************************************)
toUpperCase(s) == [i \in 1..Len(s) |-> toUpperChar(s[i])]

\* the message with its letters alternately in upper and in lower case
MixedCase(s) ==
  [i \in 1..Len(s) |-> IF i % 2 = 1 THEN toUpperChar(s[i]) ELSE toLowerChar(s[i])]

CaseVariants(s) == {toLowerCase(s), toUpperCase(s), MixedCase(s)}

C22_CaseInsensitivePrefix ==
  (RunFailed /\ caught.kind = "Error") =>
    LET m == caught.message
        report == failed[1].text
        prefix == SubSeq(report, 1, Len(report) - Len(m))
    IN /\ EndsWith(report, m)
       /\ prefix \in {<<>>, <<"A", "u", "t", "h", "e", "n", "t", "i", "c", "a", "t", "i", "o", "n", " ", "f", "a", "i", "l", "e", "d", ":", " ">>,
                      <<"G", "i", "t", "H", "u", "b", " ", "A", "P", "I", " ", "r", "a", "t", "e", " ", "l", "i", "m", "i", "t", " ", "e", "x", "c", "e", "e", "d", "e", "d", ":", " ">>,
                      <<"G", "i", "t", "H", "u", "b", " ", "A", "P", "I", " ", "e", "r", "r", "o", "r", ":", " ">>}
       /\ \A v \in CaseVariants(m) : failureMessage(JsError(v)) = prefix \o v

\* an upper-case AUTHENTICATION is reported as an authentication failure,
\* the message in its own case
C22_Witness ==
  /\ RunFailed
  /\ caught = JsError(<<"A", "U", "T", "H", "E", "N", "T", "I", "C", "A", "T", "I", "O", "N", " ", "r", "e", "q", "u", "i", "r", "e", "d">>)
  /\ failed[1].text = <<"A", "u", "t", "h", "e", "n", "t", "i", "c", "a", "t", "i", "o", "n", " ", "f", "a", "i", "l", "e", "d", ":", " ", "A", "U", "T", "H", "E", "N", "T", "I", "C", "A", "T", "I", "O", "N", " ", "r", "e", "q", "u", "i", "r", "e", "d">>

(***************************************************************************)
(* C23, as stated: whatever the input, the result of                       *)
(* convertPrivateKeyFormat contains neither legacy delimiter.              *)
(***************************************************************************)
C23_NoLegacyDelimiterLeft ==
  (kpc \in {"once", "twice"}) =>
    /\ ~includes(keyOnce, <<"-", "-", "-", "-", "-", "B", "E", "G", "I", "N", " ", "R", "S", "A", " ", "P", "R", "I", "V", "A", "T", "E", " ", "K", "E", "Y", "-", "-", "-", "-", "-">>)
    /\ ~includes(keyOnce, <<"-", "-", "-", "-", "-", "E", "N", "D", " ", "R", "S", "A", " ", "P", "R", "I", "V", "A", "T", "E", " ", "K", "E", "Y", "-", "-", "-", "-", "-">>)

(***************************************************************************)
(* C23, amended: the result contains neither legacy delimiter for every    *)
(* input in which each legacy delimiter occurs at most once and a legacy   *)
(* footer occurs only together with the marker BEGIN RSA PRIVATE KEY.      *)
(***************************************************************************)
C23_NoLegacyDelimiterLeftOfSingles ==
  (/\ kpc \in {"once", "twice"}
   /\ Count(keyIn, <<"-", "-", "-", "-", "-", "B", "E", "G", "I", "N", " ", "R", "S", "A", " ", "P", "R", "I", "V", "A", "T", "E", " ", "K", "E", "Y", "-", "-", "-", "-", "-">>) <= 1
   /\ Count(keyIn, <<"-", "-", "-", "-", "-", "E", "N", "D", " ", "R", "S", "A", " ", "P", "R", "I", "V", "A", "T", "E", " ", "K", "E", "Y", "-", "-", "-", "-", "-">>) <= 1
   /\ \/ includes(keyIn, <<"B", "E", "G", "I", "N", " ", "R", "S", "A", " ", "P", "R", "I", "V", "A", "T", "E", " ", "K", "E", "Y">>)
      \/ Count(keyIn, <<"-", "-", "-", "-", "-", "E", "N", "D", " ", "R", "S", "A", " ", "P", "R", "I", "V", "A", "T", "E", " ", "K", "E", "Y", "-", "-", "-", "-", "-">>) = 0)
    => /\ ~includes(keyOnce, <<"-", "-", "-", "-", "-", "B", "E", "G", "I", "N", " ", "R", "S", "A", " ", "P", "R", "I", "V", "A", "T", "E", " ", "K", "E", "Y", "-", "-", "-", "-", "-">>)
       /\ ~includes(keyOnce, <<"-", "-", "-", "-", "-", "E", "N", "D", " ", "R", "S", "A", " ", "P", "R", "I", "V", "A", "T", "E", " ", "K", "E", "Y", "-", "-", "-", "-", "-">>)

\* a legacy footer directly followed by a legacy header: both are rewritten
C23_Witness ==
  /\ kpc = "once"
  /\ keyIn = <<"-", "-", "-", "-", "-", "E", "N", "D", " ", "R", "S", "A", " ", "P", "R", "I", "V", "A", "T", "E", " ", "K", "E", "Y", "-", "-", "-", "-", "-", "-", "-", "-", "-", "-", "B", "E", "G", "I", "N", " ", "R", "S", "A", " ", "P", "R", "I", "V", "A", "T", "E", " ", "K", "E", "Y", "-", "-", "-", "-", "-">>
  /\ keyOnce = <<"-", "-", "-", "-", "-", "E", "N", "D", " ", "P", "R", "I", "V", "A", "T", "E", " ", "K", "E", "Y", "-", "-", "-", "-", "-", "-", "-", "-", "-", "-", "B", "E", "G", "I", "N", " ", "P", "R", "I", "V", "A", "T", "E", " ", "K", "E", "Y", "-", "-", "-", "-", "-">>

(***************************************************************************)
(* C24: debug mode does not influence the collector's result: what a run   *)
(* returned and logged with core.info is what the collector returns and    *)
(* logs with core.info on the same installations under the other debug     *)
(* setting; the two differ in debug lines only.                            *)
(***************************************************************************)
C24_DebugModeIrrelevant ==
  CollectorReturned =>
    LET infoOnly(ls) == SelectSeq(ls, LAMBDA l : l.level = "info")
        before == Len(infoOnly(<<info(MsgStart)>>
                               \o convertPrivateKeyFormatLogs(env[EnvPrivateKey].val)))
        \* the info lines of this run's collector call
        mine == SelectSeq(SubSeq(infoOnly(logs), before + 1, Len(infoOnly(logs))),
                          LAMBDA l : ~StartsWith(l.text, <<"O", "u", "t", "p", "u", "t", ":", " ">>))
        \* the info lines of a collector call under the other debug setting
        other == infoOnly(collectorLogs(installations, ~debugMode))
    IN /\ organizations = orgNamesOf(installations)
       /\ Len(infoOnly(logs)) >= before
       /\ mine = other
       /\ Len(mine) = 2

\* a run in debug mode over two installations: four lines of the collector,
\* two of them informational, the same two as without debug mode
C24_Witness ==
  /\ CollectorReturned
  /\ debugMode
  /\ Len(installations) = 2
  /\ Len(DebugLines) = 3
  /\ Len(collectorLogs(installations, FALSE)) = 2
  /\ Len(organizations) = 1

====
